---- MODULE Spec2Model ----
(***************************************************************************)
(* A model of the secure filesystem server, src/src/filesystem/index.ts:   *)
(* the path sandbox (validatePath), the character and line editors         *)
(* (performCharBasedUpdate, performLineBasedUpdate), the delimiter check   *)
(* (validateCodeStructure) and the tool dispatch handler.                  *)
(*                                                                         *)
(* Strings are sequences of one-character strings, so that startsWith,     *)
(* endsWith, split, join, substring and toLowerCase are computed and not   *)
(* assumed.  A path is kept as the sequence of its segments and rendered   *)
(* to its string with pathString.                                          *)
(***************************************************************************)
EXTENDS Integers, Sequences, FiniteSets, TLC

VARIABLES
    args,               \* process.argv.slice(2): the directories given at start-up
    allowedDirectories, \* the normalized allow-list built from args (index.ts:39)
    fs,                 \* the file system: absolute path -> node
    vpReq, vpRes,       \* the last validatePath call: its argument and its outcome
    edFile, edContent,  \* an editor call: the file path and the content read from it
    edOps, edOut,       \* ... its batch and its outcome
    edPerm, edOutPerm,  \* ... the same batch in another order, and that outcome
    edPc,               \* ... and how far the call has got
    pc,                 \* the request handler: idle, awaiting its helper, responded, crashed
    nCalls,             \* tool calls received so far
    call,               \* the tool call being served: its name and arguments
    response,           \* the payload returned for it
    authorized,         \* the values validatePath returned while serving it
    handed,             \* the paths handed to file operations and to the helper
    fsBefore,           \* the file system when the call arrived
    helper,             \* the payload of the child process the call awaits
    reqs,               \* concurrent modify requests: each one's position and locals
    lastWriter,         \* the request whose fs.writeFile completed last (0: none yet)
    lcOffset, lcPosition \* a getLineColumnFromOffset call: its offset and its outcome

pathVars == <<args, allowedDirectories, fs, vpReq, vpRes>>
edVars == <<edFile, edContent, edOps, edOut, edPerm, edOutPerm, edPc>>
raceVars == <<reqs, lastWriter>>
posVars == <<lcOffset, lcPosition>>
toolVars == <<pc, nCalls, call, response, authorized, handed, fsBefore, helper>>
vars == <<args, allowedDirectories, fs, vpReq, vpRes,
          edFile, edContent, edOps, edOut, edPerm, edOutPerm, edPc,
          pc, nCalls, call, response, authorized, handed, fsBefore, helper,
          reqs, lastWriter, lcOffset, lcPosition>>

None == [none |-> TRUE]

(***************************************************************************)
(* Bounds of the model.                                                    *)
(***************************************************************************)
MaxSegs == 4        \* segments of a requested path
MaxPos == 2         \* positions of a character operation: 0..MaxPos
MaxOps == 2         \* operations of a batch
MaxCalls == 2       \* tool calls the server receives
MaxLen == 3         \* characters of a content given to a function on its own

(***************************************************************************)
(* String helpers (JavaScript's String methods on character sequences).    *)
(***************************************************************************)
startsWith(s, prefix) ==
    /\ Len(prefix) <= Len(s)
    /\ \A i \in 1..Len(prefix) : s[i] = prefix[i]

endsWith(s, suffix) ==
    /\ Len(suffix) <= Len(s)
    /\ \A i \in 1..Len(suffix) : s[Len(s) - Len(suffix) + i] = suffix[i]

\* String.prototype.toLowerCase on the characters of the model's alphabet.
lowerChar(c) == IF c = "P" THEN "p" ELSE IF c = "D" THEN "d" ELSE c

toLowerCase(s) == [i \in 1..Len(s) |-> lowerChar(s[i])]

(***************************************************************************)
(* Path names of the modelled host.                                        *)
(***************************************************************************)
DATA  == <<"d">>
PROJ  == <<"p">>
PROJ2 == <<"p", "2">>
ETC   == <<"e">>
HOMEN == <<"h">>
ATS   == <<"a", ".", "t", "s">>
BPY   == <<"b", ".", "p", "y">>
CTXT  == <<"c">>
LOUT  == <<"l", "o">>
LIN   == <<"l", "i">>
NEWN  == <<"n">>
DOT    == <<".">>
DOTDOT == <<".", ".">>

\* os.homedir() and process.cwd() of the modelled process.
homedir == <<HOMEN>>
cwd     == <<DATA>>

\* The string of an absolute path given by its segments: "/" for the root,
\* "/s1/s2/.../sn" otherwise (path.resolve never leaves a trailing separator).
RECURSIVE joinSegs(_)
joinSegs(segs) ==
    IF segs = <<>> THEN <<>>
    ELSE <<"/">> \o Head(segs) \o joinSegs(Tail(segs))

pathString(segs) == IF segs = <<>> THEN <<"/">> ELSE joinSegs(segs)

\* path.resolve on a segment list: "." and empty segments are dropped, ".."
\* removes the segment before it and is dropped at the root.
RECURSIVE resolveSegs(_, _)
resolveSegs(acc, rest) ==
    IF rest = <<>> THEN acc
    ELSE LET s == Head(rest) IN
         IF s = DOT \/ s = <<>> THEN resolveSegs(acc, Tail(rest))
         ELSE IF s = DOTDOT
              THEN resolveSegs(IF acc = <<>> THEN acc ELSE SubSeq(acc, 1, Len(acc) - 1),
                               Tail(rest))
              ELSE resolveSegs(Append(acc, s), Tail(rest))

\* A requested path: kind "abs" (starts with a separator), "rel" (relative)
\* or "home" ("~" or "~/..."), and the segments after that start.
\* expandHome joins the rest onto os.homedir().
expandHome(req) ==
    IF req.kind = "home" THEN [kind |-> "abs", segs |-> homedir \o req.segs] ELSE req

\* path.isAbsolute(p) ? path.resolve(p) : path.resolve(process.cwd(), p)
absoluteOf(req) ==
    LET e == expandHome(req) IN
    IF e.kind = "abs" THEN resolveSegs(<<>>, e.segs) ELSE resolveSegs(cwd, e.segs)

\* normalizePath: path.normalize(p).toLowerCase(), on a resolved path.
normalizePath(segs) == toLowerCase(pathString(segs))

\* path.dirname of a resolved path; the root is its own parent.
dirname(segs) == IF segs = <<>> THEN <<>> ELSE SubSeq(segs, 1, Len(segs) - 1)

(***************************************************************************)
(* The file system: a function from absolute paths (segment lists) to      *)
(* nodes.  Names are case-sensitive, as on the POSIX hosts the server runs *)
(* on.                                                                     *)
(***************************************************************************)
DirNode == [type |-> "dir"]
FileNode(c) == [type |-> "file", content |-> c]
LinkNode(t) == [type |-> "link", target |-> t]

\* fs.realpath: resolves every component, following symbolic links; fails
\* when a component is missing (ENOENT), is a file that is passed through
\* (ENOTDIR), or when the chain of links is too long (ELOOP).
RECURSIVE realpathFrom(_, _, _, _)
realpathFrom(f, resolved, rest, fuel) ==
    IF rest = <<>> THEN [ok |-> TRUE, path |-> resolved]
    ELSE LET next == Append(resolved, Head(rest)) IN
         IF next \notin DOMAIN f THEN [ok |-> FALSE, path |-> <<>>]
         ELSE IF f[next].type = "link"
              THEN IF fuel = 0 THEN [ok |-> FALSE, path |-> <<>>]
                   ELSE realpathFrom(f, <<>>, f[next].target \o Tail(rest), fuel - 1)
              ELSE IF f[next].type = "file" /\ Tail(rest) # <<>>
                   THEN [ok |-> FALSE, path |-> <<>>]
                   ELSE realpathFrom(f, next, Tail(rest), fuel)

realpath(f, segs) == realpathFrom(f, <<>>, segs, Cardinality(DOMAIN f))

\* allowedDirectories.some(dir => normalized.startsWith(dir))
isAllowedString(allowed, normalized) ==
    \E dir \in allowed : startsWith(normalized, dir)

(***************************************************************************)
(* validatePath (index.ts:58-96).  The outcome records the value returned  *)
(* or the error thrown, and the fs.realpath calls made, in order.          *)
(***************************************************************************)
vpOk(p, calls)    == [ok |-> TRUE, path |-> p, err |-> "", realpaths |-> calls]
vpFail(e, calls)  == [ok |-> FALSE, path |-> <<>>, err |-> e, realpaths |-> calls]

\* The catch block of validatePath: the parent directory of a target whose
\* own resolution threw.  Every error of its try block, the access-denied one
\* included, is caught by the bare catch and rethrown as "Parent directory
\* does not exist".
validateParent(allowed, f, absolute, calls) ==
    LET parentDir == dirname(absolute)
        rp == realpath(f, parentDir)
        calls2 == Append(calls, parentDir)
    IN  IF ~rp.ok THEN vpFail("ParentNotFound", calls2)
        ELSE IF ~isAllowedString(allowed, normalizePath(rp.path))
             THEN vpFail("ParentNotFound", calls2)
             ELSE vpOk(absolute, calls2)

validatePath(allowed, f, req) ==
    LET absolute == absoluteOf(req)
        normalizedRequested == normalizePath(absolute)
    IN  IF ~isAllowedString(allowed, normalizedRequested)
        THEN vpFail("AccessDenied", <<>>)
        ELSE LET rp == realpath(f, absolute) IN
             IF rp.ok /\ isAllowedString(allowed, normalizePath(rp.path))
             THEN vpOk(rp.path, <<absolute>>)
             \* realpath threw, or the "symlink target outside" error was thrown
             \* inside the try block: both land in the catch block.
             ELSE validateParent(allowed, f, absolute, <<absolute>>)

(***************************************************************************)
(* validateCodeStructure (index.ts:319-339): the balanced-delimiter scan.  *)
(***************************************************************************)
isOpener(c) == c \in {"{", "(", "["}
isCloser(c) == c \in {"}", ")", "]"}

\* A lookup that finds the round opener for every closer.
openerOfRound(c) == "("

\* Object.entries(pairs).find(([_, close]) => close === char)?.[0]
openerOf(c) == IF c = "}" THEN "{" ELSE IF c = ")" THEN "(" ELSE "["

structOk == [ok |-> TRUE, kind |-> "", expected |-> "", got |-> ""]

RECURSIVE scanStructure(_, _, _)
scanStructure(content, i, stack) ==
    IF i > Len(content)
    THEN IF Len(stack) > 0
         THEN [ok |-> FALSE, kind |-> "Unclosed", expected |-> "", got |-> stack[Len(stack)]]
         ELSE structOk
    ELSE LET char == content[i] IN
         IF isOpener(char) THEN scanStructure(content, i + 1, Append(stack, char))
         ELSE IF isCloser(char)
              THEN \* stack.pop() of an empty stack yields undefined, which
                   \* differs from every expected opener
                   IF Len(stack) > 0 /\ stack[Len(stack)] = openerOf(char)
                   THEN scanStructure(content, i + 1, SubSeq(stack, 1, Len(stack) - 1))
                   ELSE [ok |-> FALSE, kind |-> "Unbalanced",
                         expected |-> openerOf(char), got |-> char]
              ELSE scanStructure(content, i + 1, stack)

validateCodeStructure(content) == scanStructure(content, 1, <<>>)

(***************************************************************************)
(* Positions (index.ts:516-569).                                           *)
(***************************************************************************)
\* content.split('\n'): always at least one line.
RECURSIVE splitFrom(_, _, _)
splitFrom(content, i, current) ==
    IF i > Len(content) THEN <<current>>
    ELSE IF content[i] = "\n"
         THEN <<current>> \o splitFrom(content, i + 1, <<>>)
         ELSE splitFrom(content, i + 1, Append(current, content[i]))

split(content) == splitFrom(content, 1, <<>>)

\* lines.join('\n')
RECURSIVE join(_)
join(lines) ==
    IF lines = <<>> THEN <<>>
    ELSE IF Len(lines) = 1 THEN lines[1]
         ELSE lines[1] \o <<"\n">> \o join(Tail(lines))

\* The lineStarts array of getFilePositions: [0], then one entry per further
\* line, each the previous start plus the previous line's length plus one.
RECURSIVE lineStartsFrom(_, _, _)
lineStartsFrom(lines, i, position) ==
    IF i > Len(lines) - 1 THEN <<>>
    ELSE LET next == position + Len(lines[i]) + 1 IN
         <<next>> \o lineStartsFrom(lines, i + 1, next)

getFilePositions(content) ==
    LET lines == split(content) IN
    [content |-> content, lines |-> lines,
     lineStarts |-> <<0>> \o lineStartsFrom(lines, 1, 0)]

\* validatePosition / validatePositions: "" when nothing is thrown.
validatePosition(position, fileLength) ==
    IF position < 0 \/ position > fileLength THEN "PositionOutOfBounds" ELSE ""

validatePositions(startPosition, endPosition, fileLength) ==
    IF validatePosition(startPosition, fileLength) # "" THEN "PositionOutOfBounds"
    ELSE IF validatePosition(endPosition, fileLength) # "" THEN "PositionOutOfBounds"
    ELSE IF endPosition < startPosition THEN "EndBeforeStart"
    ELSE ""

\* getLineColumnFromOffset: findIndex over lineStarts (-1 when no entry
\* matches, so line 0), then column = offset - lineStarts[line - 1] + 1, which
\* is NaN when lineStarts[-1] is read.
getLineColumnFromOffset(lineStarts, offset) ==
    LET matches == { i \in 1..Len(lineStarts) :
                       /\ offset >= lineStarts[i]
                       /\ (i < Len(lineStarts) => offset < lineStarts[i + 1]) }
        line == IF matches = {} THEN 0
                ELSE CHOOSE i \in matches : \A j \in matches : i <= j
    IN  IF line = 0
        THEN [line |-> 0, column |-> 0, columnIsNaN |-> TRUE]
        ELSE [line |-> line, column |-> offset - lineStarts[line] + 1, columnIsNaN |-> FALSE]

(***************************************************************************)
(* performCharBasedUpdate (index.ts:632-690).                              *)
(***************************************************************************)
\* String.prototype.substring(a, b): both arguments are clamped to the
\* string and swapped when a > b.
clampIndex(s, a) == IF a < 0 THEN 0 ELSE IF a > Len(s) THEN Len(s) ELSE a

substring(s, a, b) ==
    LET ca == clampIndex(s, a)
        cb == clampIndex(s, b)
        lo == IF ca <= cb THEN ca ELSE cb
        hi == IF ca <= cb THEN cb ELSE ca
    IN  SubSeq(s, lo + 1, hi)

\* A CharOperation; hasEnd / hasNew tell whether the optional endPosition /
\* newContent were given.
CharOp(kind, start, hasEnd, end, hasNew, new) ==
    [operation |-> kind, startPosition |-> start, hasEnd |-> hasEnd,
     endPosition |-> end, hasNew |-> hasNew, newContent |-> new]

\* The refinement of CharOperationSchema (index.ts:125-143).
charOpSchemaOk(op) ==
    IF op.operation = "delete" THEN op.hasEnd
    ELSE IF op.operation = "replace" THEN op.hasEnd /\ op.hasNew
    ELSE IF op.operation = "insert" THEN op.hasNew
    ELSE FALSE

\* [...operations].sort((a, b) => b.startPosition - a.startPosition):
\* Array.prototype.sort is stable, so operations with equal startPosition
\* keep their input order.
insertSorted(sorted, op) ==
    LET before == { i \in 1..Len(sorted) : sorted[i].startPosition >= op.startPosition }
        k == Cardinality(before)
    IN  SubSeq(sorted, 1, k) \o <<op>> \o SubSeq(sorted, k + 1, Len(sorted))

RECURSIVE sortFrom(_, _, _)
sortFrom(operations, i, sorted) ==
    IF i > Len(operations) THEN sorted
    ELSE sortFrom(operations, i + 1, insertSorted(sorted, operations[i]))

sortOps(operations) == sortFrom(operations, 1, <<>>)

\* filePath.endsWith('.ts') || filePath.endsWith('.js') (index.ts:663, 410)
isCodeFile(filePath) ==
    \/ endsWith(pathString(filePath), <<".", "t", "s">>)
    \/ endsWith(pathString(filePath), <<".", "j", "s">>)

noError == [kind |-> "", cause |-> "", line |-> 0, column |-> 0, columnIsNaN |-> FALSE,
            contextDefined |-> FALSE, contextLine |-> <<>>, structure |-> structOk]

\* The error thrown by the catch block of the loop (index.ts:678-686): the
\* position of adjustedStart in the lineStarts of the content as read, and the
\* line of the current buffer with that number.
operationFailed(cause, structure, lineStarts, adjustedStart, result) ==
    LET pos == getLineColumnFromOffset(lineStarts, adjustedStart)
        resultLines == split(result)
        defined == pos.line >= 1 /\ pos.line <= Len(resultLines)
    IN  [kind |-> "OperationFailed", cause |-> cause,
         line |-> pos.line, column |-> pos.column, columnIsNaN |-> pos.columnIsNaN,
         contextDefined |-> defined,
         contextLine |-> IF defined THEN resultLines[pos.line] ELSE <<>>,
         structure |-> structure]

editOk(content, applied)  == [ok |-> TRUE, content |-> content, applied |-> applied, err |-> noError]
editFail(content, applied, err) == [ok |-> FALSE, content |-> content, applied |-> applied, err |-> err]

\* accumulatedShift after one operation (index.ts:657-660).
shiftAfter(accumulatedShift, op, adjustedStart, adjustedEnd) ==
    LET oldLength == adjustedEnd - adjustedStart
        newLength == IF op.operation = "delete" THEN 0
                     ELSE IF op.hasNew THEN Len(op.newContent) ELSE 0
    IN  accumulatedShift + newLength - oldLength

\* The positions an operation is applied at (index.ts:646-648).
adjustedPosition(position, accumulatedShift) == position + accumulatedShift

\* The loop over sortedOps; on failure the record keeps the buffer and the
\* number of operations applied before the throw.
RECURSIVE charLoop(_, _, _, _, _, _)
charLoop(codeFile, lineStarts, sortedOps, i, result, accumulatedShift) ==
    IF i > Len(sortedOps) THEN editOk(result, i - 1)
    ELSE LET op == sortedOps[i]
             startPosition == op.startPosition
             endPosition == IF op.hasEnd THEN op.endPosition ELSE startPosition
             newContent == IF op.hasNew THEN op.newContent ELSE <<>>
             adjustedStart == adjustedPosition(startPosition, accumulatedShift)
             adjustedEnd == adjustedPosition(endPosition, accumulatedShift)
             bad == validatePositions(adjustedStart, adjustedEnd, Len(result))
             newResult == substring(result, 0, adjustedStart)
                          \o (IF op.operation = "delete" THEN <<>> ELSE newContent)
                          \o substring(result,
                                       IF op.operation = "insert" THEN adjustedStart
                                       ELSE adjustedEnd,
                                       Len(result))
             structure == IF codeFile THEN validateCodeStructure(newResult) ELSE structOk
         IN  IF bad # ""
             THEN editFail(result, i - 1,
                           operationFailed(bad, structOk, lineStarts, adjustedStart, result))
             ELSE IF ~structure.ok
                  THEN editFail(result, i - 1,
                                operationFailed("CodeStructure", structure, lineStarts,
                                                adjustedStart, result))
                  ELSE charLoop(codeFile, lineStarts, sortedOps, i + 1, newResult,
                                shiftAfter(accumulatedShift, op, adjustedStart, adjustedEnd))

performCharBasedUpdate(filePath, content, operations) ==
    charLoop(isCodeFile(filePath), getFilePositions(content).lineStarts,
             sortOps(operations), 1, content, 0)

(***************************************************************************)
(* performLineBasedUpdate (index.ts:344-419).                              *)
(***************************************************************************)
\* A LineOperation; hasEnd / hasNew tell whether the optional endLine /
\* newContent were given.
LineOp(type, start, hasEnd, end, hasNew, new) ==
    [type |-> type, startLine |-> start, hasEnd |-> hasEnd, endLine |-> end,
     hasNew |-> hasNew, newContent |-> new]

\* LineOperationSchema (index.ts:145-174): positive line numbers, the fields
\* each type requires, and endLine >= startLine.
lineOpSchemaOk(op) ==
    /\ op.startLine > 0
    /\ op.hasEnd => op.endLine > 0
    /\ IF op.type = "deleteLines" THEN op.hasEnd
       ELSE IF op.type = "replaceLines" THEN op.hasEnd /\ op.hasNew
       ELSE IF op.type = "insertLines" THEN op.hasNew
       ELSE FALSE
    /\ ~(op.hasEnd /\ op.endLine # 0 /\ op.endLine < op.startLine)

lineError(kind, cause, n) ==
    [kind |-> kind, cause |-> cause, line |-> n, column |-> 0, columnIsNaN |-> FALSE,
     contextDefined |-> FALSE, contextLine |-> <<>>, structure |-> structOk]

\* The three checks the validation block makes on one operation
\* (index.ts:350-358); noError when it passes.  "operation.endLine &&" is
\* false for an endLine that is undefined or 0.
lineOpCheck(op, lineCount) ==
    IF op.startLine > lineCount
    THEN lineError("InvalidLineNumber", "startLine", op.startLine)
    ELSE IF op.hasEnd /\ op.endLine # 0 /\ op.endLine > lineCount
         THEN lineError("InvalidLineNumber", "endLine", op.endLine)
         ELSE IF op.hasEnd /\ op.endLine # 0 /\ op.endLine < op.startLine
              THEN lineError("InvalidLineNumbers", "endLine", op.endLine)
              ELSE noError

\* The validation block (index.ts:348-359): the error of the first operation
\* of the batch that fails a check, against the line count as read.
RECURSIVE lineValidationFrom(_, _, _)
lineValidationFrom(operations, i, lineCount) ==
    IF i > Len(operations) THEN noError
    ELSE LET e == lineOpCheck(operations[i], lineCount) IN
         IF e # noError THEN e ELSE lineValidationFrom(operations, i + 1, lineCount)

\* A validation that looks at the first operation of the batch only.
lineValidationFirstOnly(operations, lineCount) ==
    IF operations = <<>> THEN noError ELSE lineOpCheck(operations[1], lineCount)

lineValidation(operations, lineCount) == lineValidationFrom(operations, 1, lineCount)

\* A splice that does nothing when start or deleteCount reach past the array.
spliceInRangeOnly(arr, start, deleteCount, items) ==
    IF start > Len(arr) \/ deleteCount > Len(arr) - start THEN arr
    ELSE SubSeq(arr, 1, start) \o items \o SubSeq(arr, start + deleteCount + 1, Len(arr))

\* Array.prototype.splice(start, deleteCount, ...items) for start >= 0: start
\* is clamped to the length, deleteCount to 0..length - start.
splice(arr, start, deleteCount, items) ==
    LET actualStart == IF start > Len(arr) THEN Len(arr) ELSE start
        room == Len(arr) - actualStart
        actualDelete == IF deleteCount < 0 THEN 0
                        ELSE IF deleteCount > room THEN room ELSE deleteCount
    IN  SubSeq(arr, 1, actualStart) \o items
        \o SubSeq(arr, actualStart + actualDelete + 1, Len(arr))

min(a, b) == IF a <= b THEN a ELSE b

\* A test that only an absent newContent fails.
newContentUndefined(op) == ~op.hasNew

\* "!operation.newContent": undefined or the empty string.
noNewContent(op) == ~op.hasNew \/ op.newContent = <<>>

\* One operation of the application loop (index.ts:362-403) on the shared
\* line array: the error thrown, or the array after the splice.
applyLineOp(modifiedLines, op) ==
    IF op.type = "replaceLines"
    THEN IF noNewContent(op) \/ ~op.hasEnd
         THEN [err |-> lineError("RequiresNewContent", "replaceLines", op.startLine),
               lines |-> modifiedLines]
         ELSE [err |-> noError,
               lines |-> splice(modifiedLines, op.startLine - 1,
                                min(op.endLine - op.startLine + 1,
                                    Len(modifiedLines) - (op.startLine - 1)),
                                split(op.newContent))]
    ELSE IF op.type = "insertLines"
    THEN IF noNewContent(op)
         THEN [err |-> lineError("RequiresNewContent", "insertLines", op.startLine),
               lines |-> modifiedLines]
         ELSE [err |-> noError,
               lines |-> splice(modifiedLines, min(op.startLine - 1, Len(modifiedLines)),
                                0, split(op.newContent))]
    ELSE IF ~op.hasEnd
         THEN [err |-> lineError("RequiresEndLine", "deleteLines", op.startLine),
               lines |-> modifiedLines]
         ELSE [err |-> noError,
               lines |-> splice(modifiedLines, op.startLine - 1,
                                min(op.endLine - op.startLine + 1,
                                    Len(modifiedLines) - (op.startLine - 1)),
                                <<>>)]

\* The loop over the batch in the order given, then the join and the final
\* structural check of .ts and .js files (index.ts:406-418).
RECURSIVE lineLoop(_, _, _, _)
lineLoop(codeFile, operations, i, modifiedLines) ==
    IF i > Len(operations)
    THEN LET result == join(modifiedLines)
             structure == IF codeFile THEN validateCodeStructure(result) ELSE structOk
         IN  IF structure.ok THEN editOk(result, i - 1)
             ELSE editFail(result, i - 1,
                           [lineError("FinalStructure", structure.kind, 0)
                                EXCEPT !.structure = structure])
    ELSE LET r == applyLineOp(modifiedLines, operations[i]) IN
         IF r.err # noError THEN editFail(join(modifiedLines), i - 1, r.err)
         ELSE lineLoop(codeFile, operations, i + 1, r.lines)

\* The batch taken back to front.
inReverseOrder(operations) ==
    [i \in 1..Len(operations) |-> operations[Len(operations) + 1 - i]]

\* `for (const operation of operations)` (index.ts:362): the batch is walked
\* as the caller gave it, neither sorted nor copied.
inCallerOrder(operations) == operations

performLineBasedUpdate(filePath, content, operations) ==
    LET lines == getFilePositions(content).lines
        invalid == lineValidation(operations, Len(lines))
    IN  IF invalid # noError THEN editFail(join(lines), 0, invalid)
        ELSE lineLoop(isCodeFile(filePath), inCallerOrder(operations), 1, lines)

(***************************************************************************)
(* The fs/promises operations the handlers call, on the modelled file      *)
(* system.  Each yields the file system after the call and either its data *)
(* or the error code it rejects with.                                      *)
(***************************************************************************)
ioOk(f, data) == [ok |-> TRUE, fs |-> f, data |-> data, err |-> ""]
ioFail(f, e)  == [ok |-> FALSE, fs |-> f, data |-> <<>>, err |-> e]

\* p is path d or lies below it.
isPrefixPath(d, p) == Len(d) <= Len(p) /\ SubSeq(p, 1, Len(d)) = d

children(f, d) == { p \in DOMAIN f : Len(p) = Len(d) + 1 /\ isPrefixPath(d, p) }

\* The place a path names once every symbolic link on the way is followed;
\* components that do not exist are kept as named.
RECURSIVE locationFrom(_, _, _, _)
locationFrom(f, resolved, rest, fuel) ==
    IF rest = <<>> THEN resolved
    ELSE LET next == Append(resolved, Head(rest)) IN
         IF next \notin DOMAIN f THEN resolved \o rest
         ELSE IF f[next].type = "link" /\ fuel > 0
              THEN locationFrom(f, <<>>, f[next].target \o Tail(rest), fuel - 1)
              ELSE locationFrom(f, next, Tail(rest), fuel)

location(f, segs) == locationFrom(f, <<>>, segs, Cardinality(DOMAIN f))

\* fs.readFile(p, 'utf-8')
readFile(f, p) ==
    LET rp == realpath(f, p) IN
    IF ~rp.ok THEN ioFail(f, "ENOENT")
    ELSE IF f[rp.path].type # "file" THEN ioFail(f, "EISDIR")
    ELSE ioOk(f, f[rp.path].content)

\* fs.writeFile(p, content, 'utf-8'): overwrites a file, creates it when only
\* the last component is missing; symbolic links are followed.
writeFile(f, p, content) ==
    LET loc == location(f, p) IN
    IF loc \in DOMAIN f
    THEN IF f[loc].type = "file"
         THEN ioOk([f EXCEPT ![loc] = FileNode(content)], <<>>)
         ELSE ioFail(f, "EISDIR")
    ELSE IF dirname(loc) \in DOMAIN f /\ f[dirname(loc)].type = "dir"
         THEN ioOk(f @@ (loc :> FileNode(content)), <<>>)
         ELSE ioFail(f, "ENOENT")

\* fs.mkdir(p, { recursive: true }): creates every missing level; an existing
\* directory is no error.
mkdir(f, p) ==
    LET loc == location(f, p)
        levels == { SubSeq(loc, 1, k) : k \in 0..Len(loc) }
        missing == levels \ DOMAIN f
    IN  IF \E q \in levels : q \in DOMAIN f /\ f[q].type # "dir"
        THEN ioFail(f, "EEXIST")
        ELSE ioOk([q \in DOMAIN f \cup missing |-> IF q \in DOMAIN f THEN f[q] ELSE DirNode],
                  <<>>)

\* fs.readdir(p, { withFileTypes: true }): a symbolic link is no directory
\* entry for Dirent.isDirectory().
readdir(f, p) ==
    LET rp == realpath(f, p) IN
    IF ~rp.ok THEN ioFail(f, "ENOENT")
    ELSE IF f[rp.path].type # "dir" THEN ioFail(f, "ENOTDIR")
    ELSE ioOk(f, { [name |-> c[Len(c)], isDirectory |-> f[c].type = "dir"] :
                     c \in children(f, rp.path) })

\* fs.stat(p): follows symbolic links.
stat(f, p) ==
    LET rp == realpath(f, p) IN
    IF ~rp.ok THEN ioFail(f, "ENOENT") ELSE ioOk(f, f[rp.path].type)

\* The entry a path names for rename(2): the directories on the way are
\* resolved, the last component is not followed.
entryPath(f, p) ==
    IF p = <<>> THEN [ok |-> TRUE, path |-> <<>>]
    ELSE LET par == realpath(f, dirname(p)) IN
         IF par.ok /\ f[par.path].type = "dir"
         THEN [ok |-> TRUE, path |-> Append(par.path, p[Len(p)])]
         ELSE [ok |-> FALSE, path |-> <<>>]

\* fs.rename(src, dst) with rename(2)'s rules: an existing destination file
\* (or link) is replaced by a source that is no directory, an existing empty
\* directory by a source directory; the source's whole subtree moves.
rename(f, src, dst) ==
    LET s == entryPath(f, src)
        d == entryPath(f, dst)
    IN  IF ~s.ok \/ ~d.ok \/ s.path \notin DOMAIN f THEN ioFail(f, "ENOENT")
        ELSE IF s.path = <<>> \/ d.path = <<>> THEN ioFail(f, "EBUSY")
        ELSE IF s.path = d.path THEN ioOk(f, <<>>)
        ELSE IF isPrefixPath(s.path, d.path) THEN ioFail(f, "EINVAL")
        ELSE IF d.path \in DOMAIN f /\ f[s.path].type = "dir" /\ f[d.path].type # "dir"
             THEN ioFail(f, "ENOTDIR")
        ELSE IF d.path \in DOMAIN f /\ f[s.path].type # "dir" /\ f[d.path].type = "dir"
             THEN ioFail(f, "EISDIR")
        ELSE IF d.path \in DOMAIN f /\ children(f, d.path) # {}
             THEN ioFail(f, "ENOTEMPTY")
        ELSE LET subtree == { q \in DOMAIN f : isPrefixPath(s.path, q) }
                 moved(q) == d.path \o SubSeq(q, Len(s.path) + 1, Len(q))
                 kept == (DOMAIN f \ subtree) \ {d.path}
                 arrived == { moved(q) : q \in subtree }
             IN  ioOk([q \in kept \cup arrived |->
                         IF q \in arrived
                         THEN f[s.path \o SubSeq(q, Len(d.path) + 1, Len(q))]
                         ELSE f[q]],
                      <<>>)

(***************************************************************************)
(* Start-up (index.ts:19-55).                                              *)
(***************************************************************************)
absReq(segs)  == [kind |-> "abs", segs |-> segs]
relReq(segs)  == [kind |-> "rel", segs |-> segs]
homeReq(segs) == [kind |-> "home", segs |-> segs]

\* args.map(dir => normalizePath(path.resolve(expandHome(dir))))
allowedDirectoriesOf(a) == { normalizePath(absoluteOf(dir)) : dir \in a }

\* The host's file system when the server starts.
InitFS ==
       (<<>> :> DirNode)
    @@ (<<DATA>> :> DirNode)
    @@ (<<DATA, PROJ>> :> DirNode)
    @@ (<<DATA, PROJ, ATS>> :> FileNode(<<"{", "}">>))
    @@ (<<DATA, PROJ, BPY>> :> FileNode(<<"(", ")">>))
    @@ (<<DATA, PROJ, CTXT>> :> FileNode(<<"a", "b">>))
    @@ (<<DATA, PROJ, LOUT>> :> LinkNode(<<ETC>>))
    @@ (<<DATA, PROJ, LIN>> :> LinkNode(<<DATA, PROJ, CTXT>>))
    @@ (<<DATA, PROJ2>> :> DirNode)
    @@ (<<DATA, PROJ2, CTXT>> :> FileNode(<<"s">>))
    @@ (<<ETC>> :> DirNode)
    @@ (<<ETC, CTXT>> :> FileNode(<<"x">>))
    @@ (<<HOMEN>> :> DirNode)

\* fs.stat(dir).isDirectory() of the start-up check: the process exits unless
\* every argument is an existing directory.
isDirectory(f, segs) ==
    LET rp == realpath(f, segs) IN rp.ok /\ f[rp.path].type = "dir"

\* No tool call has arrived.
NoToolCall ==
    /\ pc = "idle"
    /\ nCalls = 0
    /\ call = None
    /\ response = None
    /\ authorized = {}
    /\ handed = {}
    /\ fsBefore = None
    /\ helper = None

\* No concurrent requests are in flight.
NoRace ==
    /\ reqs = None
    /\ lastWriter = 0

\* No position lookup is under way.
NoLookup ==
    /\ lcOffset = 0
    /\ lcPosition = None

ArgConfigs ==
    { {absReq(<<DATA, PROJ>>)},
      {absReq(<<DATA, PROJ>>), homeReq(<<>>)} }

(***************************************************************************)
(* The sandbox alone: validatePath applied to every request of the bounded *)
(* request space, on the start-up file system.                             *)
(***************************************************************************)
ReqNames == {DATA, PROJ, PROJ2, ETC, CTXT, LOUT, NEWN, DOTDOT}

SeqsUpTo(S, n) == UNION { [1..k -> S] : k \in 0..n }

PathRequests ==
    { [kind |-> k, segs |-> s] : k \in {"abs", "rel", "home"}, s \in SeqsUpTo(ReqNames, MaxSegs) }

InitPath ==
    /\ args \in { a \in ArgConfigs : \A dir \in a : isDirectory(InitFS, absoluteOf(dir)) }
    /\ allowedDirectories = allowedDirectoriesOf(args)
    /\ fs = InitFS
    /\ vpReq = None
    /\ vpRes = None
    /\ edFile = None /\ edContent = None /\ edOps = None
    /\ edOut = None /\ edPerm = None /\ edOutPerm = None
    /\ edPc = "idle"
    /\ NoToolCall
    /\ NoRace
    /\ NoLookup

\* A caller awaits validatePath(req).
ValidatePathCall ==
    /\ vpReq = None
    /\ \E req \in PathRequests :
        /\ vpReq' = req
        /\ vpRes' = validatePath(allowedDirectories, fs, req)
    /\ UNCHANGED <<args, allowedDirectories, fs>>
    /\ UNCHANGED edVars
    /\ UNCHANGED toolVars
    /\ UNCHANGED raceVars
    /\ UNCHANGED posVars

\* The caller has consumed the outcome; the next call may start.
ValidatePathDone ==
    /\ vpReq # None
    /\ vpReq' = None
    /\ vpRes' = None
    /\ UNCHANGED <<args, allowedDirectories, fs>>
    /\ UNCHANGED edVars
    /\ UNCHANGED toolVars
    /\ UNCHANGED raceVars
    /\ UNCHANGED posVars

NextPath == ValidatePathCall \/ ValidatePathDone

SpecPath == InitPath /\ [][NextPath]_vars

(***************************************************************************)
(* The character editor alone: performCharBasedUpdate applied to a file    *)
(* content and a batch, and to the same batch in another order.            *)
(***************************************************************************)
\* The files edited, each with the content read from it.
EdDocs ==
    { [file |-> <<DATA, PROJ, CTXT>>, content |-> <<"a", "b">>],
      [file |-> <<DATA, PROJ, CTXT>>, content |-> <<"a", "\n", "b">>],
      [file |-> <<DATA, PROJ, ATS>>, content |-> <<"{", "a", "}">>],
      [file |-> <<DATA, PROJ, ATS>>, content |-> <<"a", "\n", "b">>] }

InsertContents == { <<"x">>, <<"}">> }
ReplaceContents == { <<"x", "y">> }

CharOps ==
         { CharOp("insert", s, FALSE, 0, TRUE, n) : s \in 0..MaxPos, n \in InsertContents }
    \cup { CharOp("delete", se[1], TRUE, se[2], FALSE, <<>>) :
             se \in { x \in (0..MaxPos) \X (0..MaxPos) : x[1] <= x[2] } }
    \cup { CharOp("replace", se[1], TRUE, se[2], TRUE, n) :
             se \in { x \in (0..MaxPos) \X (0..MaxPos) : x[1] <= x[2] },
             n \in ReplaceContents }

indexPermutations(n) == { f \in [1..n -> 1..n] : \A i, j \in 1..n : f[i] = f[j] => i = j }

permute(ops, f) == [i \in 1..Len(ops) |-> ops[f[i]]]

InitChar ==
    /\ args = {absReq(<<DATA, PROJ>>)}
    /\ allowedDirectories = allowedDirectoriesOf(args)
    /\ fs = InitFS
    /\ vpReq = None /\ vpRes = None
    /\ \E doc \in EdDocs : edFile = doc.file /\ edContent = doc.content
    /\ edOps \in SeqsUpTo(CharOps, MaxOps)
    /\ edOut = None /\ edPerm = None /\ edOutPerm = None
    /\ edPc = "read"
    /\ NoToolCall
    /\ NoRace
    /\ NoLookup

\* performCharBasedUpdate on the batch as submitted.
CharUpdate ==
    /\ edPc = "read"
    /\ edOut' = performCharBasedUpdate(edFile, edContent, edOps)
    /\ edPc' = "applied"
    /\ UNCHANGED <<edFile, edContent, edOps, edPerm, edOutPerm>>
    /\ UNCHANGED pathVars
    /\ UNCHANGED toolVars
    /\ UNCHANGED raceVars
    /\ UNCHANGED posVars

\* performCharBasedUpdate on the same content and a permutation of the batch.
CharUpdatePermuted ==
    /\ edPc = "applied"
    /\ \E f \in indexPermutations(Len(edOps)) :
        /\ edPerm' = permute(edOps, f)
        /\ edOutPerm' = performCharBasedUpdate(edFile, edContent, permute(edOps, f))
    /\ edPc' = "permuted"
    /\ UNCHANGED <<edFile, edContent, edOps, edOut>>
    /\ UNCHANGED pathVars
    /\ UNCHANGED toolVars
    /\ UNCHANGED raceVars
    /\ UNCHANGED posVars

NextChar == CharUpdate \/ CharUpdatePermuted

SpecChar == InitChar /\ [][NextChar]_vars

(***************************************************************************)
(* The line editor alone: performLineBasedUpdate applied to a file content *)
(* and a batch that LineOperationSchema accepts.                           *)
(***************************************************************************)
LineDocs ==
    { [file |-> <<DATA, PROJ, CTXT>>, content |-> <<"a">>],
      [file |-> <<DATA, PROJ, CTXT>>, content |-> <<"a", "\n", "b">>],
      [file |-> <<DATA, PROJ, ATS>>, content |-> <<"{", "\n", "}">>] }

LineNewContents == { <<"x">>, <<"x", "\n", "}">>, <<>> }

\* Line numbers run one past MaxPos, so that a line beyond the end of every
\* modelled file is among them.
LineNumbers == 1..(MaxPos + 1)

LineOps ==
    { op \in
             { LineOp("insertLines", s, FALSE, 0, TRUE, n) : s \in LineNumbers, n \in LineNewContents }
        \cup { LineOp("deleteLines", se[1], TRUE, se[2], FALSE, <<>>) :
                 se \in LineNumbers \X LineNumbers }
        \cup { LineOp("replaceLines", se[1], TRUE, se[2], TRUE, n) :
                 se \in LineNumbers \X LineNumbers, n \in LineNewContents }
      : lineOpSchemaOk(op) }

InitLine ==
    /\ args = {absReq(<<DATA, PROJ>>)}
    /\ allowedDirectories = allowedDirectoriesOf(args)
    /\ fs = InitFS
    /\ vpReq = None /\ vpRes = None
    /\ \E doc \in LineDocs : edFile = doc.file /\ edContent = doc.content
    /\ edOps \in SeqsUpTo(LineOps, MaxOps)
    /\ edOut = None /\ edPerm = None /\ edOutPerm = None
    /\ edPc = "read"
    /\ NoToolCall
    /\ NoRace
    /\ NoLookup

LineUpdate ==
    /\ edPc = "read"
    /\ edOut' = performLineBasedUpdate(edFile, edContent, edOps)
    /\ edPc' = "applied"
    /\ UNCHANGED <<edFile, edContent, edOps, edPerm, edOutPerm>>
    /\ UNCHANGED pathVars
    /\ UNCHANGED toolVars
    /\ UNCHANGED raceVars
    /\ UNCHANGED posVars

\* The caller has the outcome; the editor call is over.
LineUpdateDone ==
    /\ edPc = "applied"
    /\ edPc' = "done"
    /\ UNCHANGED <<edFile, edContent, edOps, edOut, edPerm, edOutPerm>>
    /\ UNCHANGED pathVars
    /\ UNCHANGED toolVars
    /\ UNCHANGED raceVars
    /\ UNCHANGED posVars

NextLine == LineUpdate \/ LineUpdateDone

SpecLine == InitLine /\ [][NextLine]_vars

(***************************************************************************)
(* The tool dispatch handler (index.ts:832-1134).  One action per tool:    *)
(* the whole case of the switch, from safeParse to the returned payload,   *)
(* with the catch clause of the handler turning every throw into an error  *)
(* payload.  modify_python awaits a child process, whose events are        *)
(* actions of their own.                                                   *)
(***************************************************************************)
successResponse(data) ==
    [kind |-> "success", isError |-> FALSE, message |-> "", data |-> data]

\* The catch clause of the handler (index.ts:1127-1133).
errorResponse(message) ==
    [kind |-> "error", isError |-> TRUE, message |-> message, data |-> <<>>]

\* No payload: the exception left the process uncaught.
faultResponse(message) ==
    [kind |-> "fault", isError |-> FALSE, message |-> message, data |-> <<>>]

\* What serving a call comes to: the file system after it, the payload (None
\* while a child process is awaited), the validatePath results obtained, the
\* paths handed on, and the child process started.
handled(f, resp, auth, hd) ==
    [fs |-> f, response |-> resp, authorized |-> auth, handed |-> hd, helper |-> None]

invalidArguments(f) == handled(f, errorResponse("InvalidArguments"), {}, {})

\* z.object({ path: z.string() }) and the schemas that add fields to it.
hasPath(a) == a.path # None

handleReadFile(allowed, f, a) ==
    IF ~hasPath(a) THEN invalidArguments(f)
    ELSE LET vp == validatePath(allowed, f, a.path) IN
         IF ~vp.ok THEN handled(f, errorResponse(vp.err), {}, {})
         ELSE LET r == readFile(f, vp.path) IN
              handled(f, IF r.ok THEN successResponse(r.data) ELSE errorResponse(r.err),
                      {absReq(vp.path)}, {absReq(vp.path)})

\* One element of the Promise.all of read_multiple_files, with its own
\* try/catch (index.ts:856-863).
readOne(allowed, f, filePath) ==
    LET vp == validatePath(allowed, f, filePath) IN
    IF ~vp.ok THEN [text |-> <<filePath, "Error", vp.err>>, authorized |-> {}, handed |-> {}]
    ELSE LET r == readFile(f, vp.path) IN
         [text |-> IF r.ok THEN <<filePath, r.data>> ELSE <<filePath, "Error", r.err>>,
          authorized |-> {absReq(vp.path)}, handed |-> {absReq(vp.path)}]

handleReadMultipleFiles(allowed, f, a) ==
    IF ~a.given THEN invalidArguments(f)
    ELSE LET results == [i \in 1..Len(a.paths) |-> readOne(allowed, f, a.paths[i])] IN
         handled(f, successResponse([i \in 1..Len(a.paths) |-> results[i].text]),
                 UNION { results[i].authorized : i \in 1..Len(a.paths) },
                 UNION { results[i].handed : i \in 1..Len(a.paths) })

handleWriteFile(allowed, f, a) ==
    IF ~hasPath(a) THEN invalidArguments(f)
    ELSE LET vp == validatePath(allowed, f, a.path) IN
         IF ~vp.ok THEN handled(f, errorResponse(vp.err), {}, {})
         ELSE LET w == writeFile(f, vp.path, a.content) IN
              handled(w.fs, IF w.ok THEN successResponse(<<>>) ELSE errorResponse(w.err),
                      {absReq(vp.path)}, {absReq(vp.path)})

handleCreateDirectory(allowed, f, a) ==
    IF ~hasPath(a) THEN invalidArguments(f)
    ELSE LET vp == validatePath(allowed, f, a.path) IN
         IF ~vp.ok THEN handled(f, errorResponse(vp.err), {}, {})
         ELSE LET m == mkdir(f, vp.path) IN
              handled(m.fs, IF m.ok THEN successResponse(<<>>) ELSE errorResponse(m.err),
                      {absReq(vp.path)}, {absReq(vp.path)})

handleListDirectory(allowed, f, a) ==
    IF ~hasPath(a) THEN invalidArguments(f)
    ELSE LET vp == validatePath(allowed, f, a.path) IN
         IF ~vp.ok THEN handled(f, errorResponse(vp.err), {}, {})
         ELSE LET rd == readdir(f, vp.path) IN
              handled(f, IF rd.ok THEN successResponse(rd.data) ELSE errorResponse(rd.err),
                      {absReq(vp.path)}, {absReq(vp.path)})

handleMoveFile(allowed, f, a) ==
    IF a.source = None \/ a.destination = None THEN invalidArguments(f)
    ELSE LET src == validatePath(allowed, f, a.source) IN
         IF ~src.ok THEN handled(f, errorResponse(src.err), {}, {})
         ELSE LET dst == validatePath(allowed, f, a.destination) IN
              IF ~dst.ok THEN handled(f, errorResponse(dst.err), {absReq(src.path)}, {})
              ELSE LET mv == rename(f, src.path, dst.path) IN
                   handled(mv.fs,
                           IF mv.ok THEN successResponse(<<>>) ELSE errorResponse(mv.err),
                           {absReq(src.path), absReq(dst.path)},
                           {absReq(src.path), absReq(dst.path)})

\* String.prototype.includes
includes(s, sub) ==
    \E i \in 1..(Len(s) + 1) :
        i + Len(sub) - 1 <= Len(s) /\ SubSeq(s, i, i + Len(sub) - 1) = sub

noMatches == [ok |-> TRUE, results |-> {}, authorized |-> {}, handed |-> {}]

\* search(currentPath) of searchFiles (index.ts:604-625): readdir of the
\* current path, then for each entry validatePath(fullPath), the match on the
\* lower-cased name, and the descent into fullPath when the entry is a
\* directory; a throw while an entry is processed skips the entry.
RECURSIVE search(_, _, _, _)
search(allowed, f, currentPath, pattern) ==
    LET rd == readdir(f, currentPath) IN
    IF ~rd.ok
    THEN [ok |-> FALSE, results |-> {}, authorized |-> {}, handed |-> {absReq(currentPath)}]
    ELSE LET visit(entry) ==
                 LET fullPath == Append(currentPath, entry.name)
                     vp == validatePath(allowed, f, absReq(fullPath))
                     below == IF entry.isDirectory
                              THEN search(allowed, f, fullPath, pattern)
                              ELSE noMatches
                 IN  IF ~vp.ok THEN noMatches
                     ELSE [ok |-> TRUE,
                           results |-> (IF includes(toLowerCase(entry.name), toLowerCase(pattern))
                                        THEN {fullPath} ELSE {})
                                       \cup below.results,
                           authorized |-> {absReq(vp.path)} \cup below.authorized,
                           handed |-> below.handed]
         IN  [ok |-> TRUE,
              results |-> UNION { visit(e).results : e \in rd.data },
              authorized |-> UNION { visit(e).authorized : e \in rd.data },
              handed |-> {absReq(currentPath)} \cup UNION { visit(e).handed : e \in rd.data }]

handleSearchFiles(allowed, f, a) ==
    IF ~hasPath(a) THEN invalidArguments(f)
    ELSE LET vp == validatePath(allowed, f, a.path) IN
         IF ~vp.ok THEN handled(f, errorResponse(vp.err), {}, {})
         ELSE LET found == search(allowed, f, vp.path, a.pattern) IN
              handled(f,
                      IF found.ok THEN successResponse(found.results) ELSE errorResponse("ENOTDIR"),
                      {absReq(vp.path)} \cup found.authorized, found.handed)

\* `await fs.writeFile(validPath, newContent, "utf-8")` after the awaited
\* editor call (index.ts:941-942 and 951-963): an editor that threw never
\* reaches the write.
writeBackAlways(f, validPath, out) == writeFile(f, validPath, out.content)

writeBack(f, validPath, out) ==
    IF out.ok THEN writeFile(f, validPath, out.content) ELSE ioOk(f, <<>>)

editResponse(out, w) ==
    IF ~out.ok THEN errorResponse(out.err.kind)
    ELSE IF ~w.ok THEN errorResponse(w.err)
    ELSE successResponse(<<>>)

handleModifyChars(allowed, f, a) ==
    IF ~hasPath(a) \/ \E i \in 1..Len(a.operations) : ~charOpSchemaOk(a.operations[i])
    THEN invalidArguments(f)
    ELSE LET vp == validatePath(allowed, f, a.path) IN
         IF ~vp.ok THEN handled(f, errorResponse(vp.err), {}, {})
         ELSE LET r == readFile(f, vp.path) IN
              IF ~r.ok THEN handled(f, errorResponse(r.err), {absReq(vp.path)}, {absReq(vp.path)})
              ELSE LET out == performCharBasedUpdate(vp.path, r.data, a.operations)
                       w == writeBack(f, vp.path, out)
                   IN  handled(w.fs, editResponse(out, w),
                               {absReq(vp.path)}, {absReq(vp.path)})

\* No file type is validated by the handler.
isStructuredFileNever(filePath) == FALSE

\* The file types modify_text validates before it writes (index.ts:957-958).
isStructuredFile(filePath) ==
    \/ endsWith(pathString(filePath), <<".", "t", "s">>)
    \/ endsWith(pathString(filePath), <<".", "j", "s">>)
    \/ endsWith(pathString(filePath), <<".", "p", "y">>)
    \/ endsWith(pathString(filePath), <<".", "j", "s", "o", "n">>)

\* The handler's own validateCodeStructure(newContent) (index.ts:956-961).
checkedByHandler(filePath, out) ==
    IF out.ok /\ isStructuredFile(filePath) /\ ~validateCodeStructure(out.content).ok
    THEN editFail(out.content, out.applied,
                  [noError EXCEPT !.kind = "StructureInvalid",
                                  !.structure = validateCodeStructure(out.content)])
    ELSE out

handleModifyText(allowed, f, a) ==
    IF ~hasPath(a) \/ \E i \in 1..Len(a.operations) : ~lineOpSchemaOk(a.operations[i])
    THEN invalidArguments(f)
    ELSE LET vp == validatePath(allowed, f, a.path) IN
         IF ~vp.ok THEN handled(f, errorResponse(vp.err), {}, {})
         ELSE LET r == readFile(f, vp.path) IN
              IF ~r.ok THEN handled(f, errorResponse(r.err), {absReq(vp.path)}, {absReq(vp.path)})
              ELSE LET out == checkedByHandler(vp.path,
                                  performLineBasedUpdate(vp.path, r.data, a.operations))
                       w == writeBack(f, vp.path, out)
                   IN  handled(w.fs, editResponse(out, w),
                               {absReq(vp.path)}, {absReq(vp.path)})

PythonOperationTypes ==
    { "add_method", "update_method_body", "add_imports", "add_parameter", "fix_indentation",
      "add_class", "remove_class", "update_class", "move_method", "move_code" }

\* The fields each case of the inner switch insists on (index.ts:994-1078);
\* a field of the operation is TRUE when it is given and truthy.
requiredGiven(op) ==
    IF op.type = "add_imports" THEN op.imports
    ELSE IF op.type = "add_parameter" THEN op.parameter
    ELSE IF op.type = "add_class" THEN op.content
    ELSE IF op.type = "remove_class" THEN op.target
    ELSE IF op.type = "update_class" THEN op.target /\ op.content
    ELSE IF op.type = "move_method" THEN op.target /\ op.source_class /\ op.target_class
    ELSE IF op.type = "move_code" THEN op.start_line /\ op.end_line /\ op.target_line
    ELSE TRUE

\* a || b on an optional string
orElse(a, b) == IF a # None THEN a ELSE b

\* The file paths of the payload given to runPythonHelper.
payloadPaths(op, validPath) ==
    IF op.type \in {"move_method", "move_code"}
    THEN { orElse(op.source_file, absReq(validPath)), orElse(op.target_file, absReq(validPath)) }
    ELSE { absReq(validPath) }

handleModifyPython(allowed, f, a) ==
    IF ~hasPath(a) \/ a.operation.type \notin PythonOperationTypes THEN invalidArguments(f)
    ELSE LET vp == validatePath(allowed, f, a.path) IN
         IF ~vp.ok THEN handled(f, errorResponse(vp.err), {}, {})
         ELSE IF ~requiredGiven(a.operation)
              THEN handled(f, errorResponse("MissingField"), {absReq(vp.path)}, {})
              ELSE [fs |-> f, response |-> None,
                    authorized |-> {absReq(vp.path)},
                    handed |-> payloadPaths(a.operation, vp.path),
                    helper |-> [operation |-> a.operation.type,
                                paths |-> payloadPaths(a.operation, vp.path)]]

\* The listeners runPythonHelper registers on the child process
\* (index.ts:699-709); stderr's 'data' listener is on the stream.
helperListeners == {"close"}

handleGetFileInfo(allowed, f, a) ==
    IF ~hasPath(a) THEN invalidArguments(f)
    ELSE LET vp == validatePath(allowed, f, a.path) IN
         IF ~vp.ok THEN handled(f, errorResponse(vp.err), {}, {})
         ELSE LET st == stat(f, vp.path) IN
              handled(f, IF st.ok THEN successResponse(st.data) ELSE errorResponse(st.err),
                      {absReq(vp.path)}, {absReq(vp.path)})

handleListAllowedDirectories(allowed, f) ==
    handled(f, successResponse(allowed), {}, {})

handleUnknownTool(f) == handled(f, errorResponse("UnknownTool"), {}, {})

(***************************************************************************)
(* The server under tool calls.                                            *)
(***************************************************************************)
ToolPaths ==
    { absReq(<<DATA, PROJ, ATS>>), absReq(<<DATA, PROJ, CTXT>>), absReq(<<DATA, PROJ, NEWN>>),
      absReq(<<DATA, PROJ, LOUT>>), absReq(<<ETC, CTXT>>), relReq(<<PROJ, BPY>>),
      absReq(<<DATA, PROJ>>) }

PathArgs == { [path |-> p] : p \in ToolPaths \cup {None} }

ReadMultipleArgs ==
    { [given |-> FALSE, paths |-> <<>>],
      [given |-> TRUE, paths |-> <<>>],
      [given |-> TRUE, paths |-> <<absReq(<<DATA, PROJ, CTXT>>), absReq(<<ETC, CTXT>>)>>],
      [given |-> TRUE, paths |-> <<absReq(<<DATA, PROJ, NEWN>>), absReq(<<DATA, PROJ, ATS>>)>>] }

WriteFileArgs == { [path |-> p, content |-> <<"w">>] : p \in ToolPaths \cup {None} }

CreateDirectoryArgs ==
    { [path |-> p] : p \in ToolPaths \cup {None, absReq(<<DATA, PROJ, NEWN, NEWN>>)} }

MovePaths ==
    { absReq(<<DATA, PROJ, ATS>>), absReq(<<DATA, PROJ, CTXT>>), absReq(<<DATA, PROJ, NEWN>>),
      absReq(<<DATA, PROJ, LIN>>), absReq(<<ETC, CTXT>>) }

MoveFileArgs ==
         { [source |-> x, destination |-> y] : x \in MovePaths, y \in MovePaths }
    \cup { [source |-> None, destination |-> None] }

SearchFilesArgs ==
         { [path |-> p, pattern |-> q] :
             p \in {absReq(<<DATA, PROJ>>), absReq(<<DATA>>), absReq(<<DATA, PROJ, LOUT>>),
                    absReq(<<DATA, PROJ, CTXT>>)},
             q \in {<<"C">>, <<"t", "s">>} }
    \cup { [path |-> None, pattern |-> <<"C">>] }

ModifyPaths ==
    { absReq(<<DATA, PROJ, ATS>>), absReq(<<DATA, PROJ, CTXT>>), relReq(<<PROJ, BPY>>),
      absReq(<<DATA, PROJ, NEWN>>), absReq(<<ETC, CTXT>>), None }

ToolCharBatches ==
    { <<CharOp("insert", 0, FALSE, 0, TRUE, <<"x">>)>>,
      <<CharOp("insert", 2, FALSE, 0, TRUE, <<"x">>), CharOp("delete", 0, TRUE, 1, FALSE, <<>>)>>,
      <<CharOp("insert", 0, FALSE, 0, TRUE, <<"x">>), CharOp("delete", 0, TRUE, 9, FALSE, <<>>)>>,
      <<CharOp("replace", 0, TRUE, 1, FALSE, <<>>)>> }

ModifyCharsArgs == { [path |-> p, operations |-> b] : p \in ModifyPaths, b \in ToolCharBatches }

ToolLineBatches ==
    { <<LineOp("replaceLines", 1, TRUE, 1, TRUE, <<"x">>)>>,
      <<LineOp("insertLines", 1, FALSE, 0, TRUE, <<"x">>), LineOp("deleteLines", 9, TRUE, 9, FALSE, <<>>)>>,
      <<LineOp("replaceLines", 1, TRUE, 1, TRUE, <<"}">>)>>,
      <<LineOp("replaceLines", 1, TRUE, 1, TRUE, <<"x">>), LineOp("insertLines", 1, FALSE, 0, TRUE, <<>>)>>,
      <<LineOp("deleteLines", 0, TRUE, 1, FALSE, <<>>)>> }

ModifyTextArgs == { [path |-> p, operations |-> b] : p \in ModifyPaths, b \in ToolLineBatches }

PythonOperation(type, given, source_file, target_file) ==
    [type |-> type, target |-> given, content |-> given, imports |-> given,
     parameter |-> given, source_class |-> given, target_class |-> given,
     start_line |-> given, end_line |-> given, target_line |-> given,
     source_file |-> source_file, target_file |-> target_file]

PythonFiles ==
    { <<None, None>>, <<absReq(<<ETC, CTXT>>), None>>, <<None, relReq(<<DOTDOT, DOTDOT, ETC, CTXT>>)>> }

ModifyPythonArgs ==
         { [path |-> p, operation |-> PythonOperation(t, g, sf[1], sf[2])] :
             p \in {relReq(<<PROJ, BPY>>), absReq(<<ETC, CTXT>>)},
             t \in PythonOperationTypes, g \in BOOLEAN, sf \in PythonFiles }
    \cup { [path |-> None, operation |-> PythonOperation("add_method", TRUE, None, None)],
           [path |-> relReq(<<PROJ, BPY>>),
            operation |-> PythonOperation("rename_class", TRUE, None, None)] }

InitTool ==
    /\ args \in { a \in ArgConfigs : \A dir \in a : isDirectory(InitFS, absoluteOf(dir)) }
    /\ allowedDirectories = allowedDirectoriesOf(args)
    /\ fs = InitFS
    /\ vpReq = None /\ vpRes = None
    /\ edFile = None /\ edContent = None /\ edOps = None
    /\ edOut = None /\ edPerm = None /\ edOutPerm = None
    /\ edPc = "idle"
    /\ NoToolCall
    /\ NoRace
    /\ NoLookup

\* The request `name` with arguments a is served with outcome out.
Serve(name, a, out) ==
    /\ pc = "idle"
    /\ nCalls < MaxCalls
    /\ nCalls' = nCalls + 1
    /\ call' = [name |-> name, arguments |-> a]
    /\ fsBefore' = fs
    /\ fs' = out.fs
    /\ response' = out.response
    /\ authorized' = out.authorized
    /\ handed' = out.handed
    /\ helper' = out.helper
    /\ pc' = IF out.helper # None THEN "helper" ELSE "responded"
    /\ UNCHANGED <<args, allowedDirectories, vpReq, vpRes>>
    /\ UNCHANGED edVars
    /\ UNCHANGED raceVars
    /\ UNCHANGED posVars

ReadFile ==
    \E a \in PathArgs : Serve("read_file", a, handleReadFile(allowedDirectories, fs, a))

ReadMultipleFiles ==
    \E a \in ReadMultipleArgs :
        Serve("read_multiple_files", a, handleReadMultipleFiles(allowedDirectories, fs, a))

WriteFile ==
    \E a \in WriteFileArgs : Serve("write_file", a, handleWriteFile(allowedDirectories, fs, a))

CreateDirectory ==
    \E a \in CreateDirectoryArgs :
        Serve("create_directory", a, handleCreateDirectory(allowedDirectories, fs, a))

ListDirectory ==
    \E a \in PathArgs : Serve("list_directory", a, handleListDirectory(allowedDirectories, fs, a))

MoveFile ==
    \E a \in MoveFileArgs : Serve("move_file", a, handleMoveFile(allowedDirectories, fs, a))

SearchFiles ==
    \E a \in SearchFilesArgs :
        Serve("search_files", a, handleSearchFiles(allowedDirectories, fs, a))

ModifyChars ==
    \E a \in ModifyCharsArgs :
        Serve("modify_chars", a, handleModifyChars(allowedDirectories, fs, a))

ModifyText ==
    \E a \in ModifyTextArgs : Serve("modify_text", a, handleModifyText(allowedDirectories, fs, a))

ModifyPython ==
    \E a \in ModifyPythonArgs :
        Serve("modify_python", a, handleModifyPython(allowedDirectories, fs, a))

GetFileInfo ==
    \E a \in PathArgs : Serve("get_file_info", a, handleGetFileInfo(allowedDirectories, fs, a))

ListAllowedDirectories ==
    Serve("list_allowed_directories", None, handleListAllowedDirectories(allowedDirectories, fs))

UnknownTool ==
    Serve("delete_file", None, handleUnknownTool(fs))

\* The child process closes with an exit code: the 'close' listener settles
\* the promise (index.ts:703-709) and the handler returns or catches.
HelperClose ==
    /\ pc = "helper"
    /\ \E code \in {0, 1} :
        response' = IF code # 0 THEN errorResponse("PythonScriptFailed")
                    ELSE successResponse(<<>>)
    /\ pc' = "responded"
    /\ UNCHANGED <<nCalls, call, authorized, handed, fsBefore, helper>>
    /\ UNCHANGED pathVars
    /\ UNCHANGED edVars
    /\ UNCHANGED raceVars
    /\ UNCHANGED posVars

\* python3 cannot be spawned: the child process emits 'error'.  An emitter
\* without a listener for 'error' throws it, outside the handler's try.
HelperSpawnError ==
    /\ pc = "helper"
    /\ response' = IF "error" \in helperListeners THEN errorResponse("SpawnFailed")
                   ELSE faultResponse("SpawnFailed")
    /\ pc' = IF "error" \in helperListeners THEN "responded" ELSE "crashed"
    /\ UNCHANGED <<nCalls, call, authorized, handed, fsBefore, helper>>
    /\ UNCHANGED pathVars
    /\ UNCHANGED edVars
    /\ UNCHANGED raceVars
    /\ UNCHANGED posVars

\* The payload has gone out; the server waits for the next request.
NextRequest ==
    /\ pc = "responded"
    /\ pc' = "idle"
    /\ call' = None
    /\ response' = None
    /\ authorized' = {}
    /\ handed' = {}
    /\ fsBefore' = None
    /\ helper' = None
    /\ UNCHANGED nCalls
    /\ UNCHANGED pathVars
    /\ UNCHANGED edVars
    /\ UNCHANGED raceVars
    /\ UNCHANGED posVars

NextTool ==
    \/ ReadFile \/ ReadMultipleFiles \/ WriteFile \/ CreateDirectory \/ ListDirectory
    \/ MoveFile \/ SearchFiles \/ ModifyChars \/ ModifyText \/ ModifyPython
    \/ GetFileInfo \/ ListAllowedDirectories \/ UnknownTool
    \/ HelperClose \/ HelperSpawnError \/ NextRequest

SpecTool == InitTool /\ [][NextTool]_vars

(***************************************************************************)
(* validateCodeStructure alone, applied to every content of the bounded    *)
(* space over the six delimiters and one other character.                  *)
(***************************************************************************)
StructChars == {"{", "}", "(", ")", "[", "]", "a"}

InitStruct ==
    /\ args = {absReq(<<DATA, PROJ>>)}
    /\ allowedDirectories = allowedDirectoriesOf(args)
    /\ fs = InitFS
    /\ vpReq = None /\ vpRes = None
    /\ edFile = None
    /\ edContent \in SeqsUpTo(StructChars, MaxLen)
    /\ edOps = None
    /\ edOut = None /\ edPerm = None /\ edOutPerm = None
    /\ edPc = "read"
    /\ NoToolCall
    /\ NoRace
    /\ NoLookup

\* validateCodeStructure(content) returns or throws.
StructureCheck ==
    /\ edPc = "read"
    /\ edOut' = validateCodeStructure(edContent)
    /\ edPc' = "checked"
    /\ UNCHANGED <<edFile, edContent, edOps, edPerm, edOutPerm>>
    /\ UNCHANGED pathVars
    /\ UNCHANGED toolVars
    /\ UNCHANGED raceVars
    /\ UNCHANGED posVars

NextStruct == StructureCheck

SpecStruct == InitStruct /\ [][NextStruct]_vars

(***************************************************************************)
(* getLineColumnFromOffset alone, on the lineStarts getFilePositions builds *)
(* for a content, with offsets from one before the content to one past its *)
(* length and beyond.                                                      *)
(***************************************************************************)
LineChars == {"a", "\n"}

Offsets == (0 - 1)..(MaxLen + 2)

\* The call returned v (it has no throw statement).
returned(v) == [returned |-> TRUE, value |-> v]

InitOffset ==
    /\ args = {absReq(<<DATA, PROJ>>)}
    /\ allowedDirectories = allowedDirectoriesOf(args)
    /\ fs = InitFS
    /\ vpReq = None /\ vpRes = None
    /\ edFile = None
    /\ edContent \in SeqsUpTo(LineChars, MaxLen)
    /\ edOps = None
    /\ edOut = None /\ edPerm = None /\ edOutPerm = None
    /\ edPc = "idle"
    /\ NoToolCall
    /\ NoRace
    /\ lcOffset \in Offsets
    /\ lcPosition = None

\* getLineColumnFromOffset(lineStarts, offset) with the lineStarts of the
\* content.
LineColumnLookup ==
    /\ lcPosition = None
    /\ lcPosition' = returned(getLineColumnFromOffset(getFilePositions(edContent).lineStarts,
                                                      lcOffset))
    /\ UNCHANGED lcOffset
    /\ UNCHANGED pathVars
    /\ UNCHANGED edVars
    /\ UNCHANGED toolVars
    /\ UNCHANGED raceVars

NextOffset == LineColumnLookup

SpecOffset == InitOffset /\ [][NextOffset]_vars

(***************************************************************************)
(* Modify requests served concurrently.  The handler is an async function: *)
(* a request runs until it awaits and another one may run in between.  A   *)
(* modify request awaits validatePath (index.ts:940, 952), the fs.readFile *)
(* of getFilePositions (index.ts:521) and fs.writeFile (index.ts:942,      *)
(* 963); the editing between the read and the write is synchronous.        *)
(* validPath, the content read and newContent are locals of the request.   *)
(***************************************************************************)
Requests == 1..MaxCalls

RacePaths == { absReq(<<DATA, PROJ, CTXT>>), absReq(<<DATA, PROJ, ATS>>) }

RaceJobs ==
    { [tool |-> "modify_chars", operations |-> <<CharOp("insert", 0, FALSE, 0, TRUE, <<"x">>)>>],
      [tool |-> "modify_chars",
       operations |-> <<CharOp("insert", 2, FALSE, 0, TRUE, <<"x">>),
                        CharOp("delete", 0, TRUE, 1, FALSE, <<>>)>>],
      [tool |-> "modify_text", operations |-> <<LineOp("replaceLines", 1, TRUE, 1, TRUE, <<"y">>)>>],
      [tool |-> "modify_text", operations |-> <<LineOp("insertLines", 1, FALSE, 0, TRUE, <<"z">>)>>] }

\* A request that has just arrived.
arrived(path, job) ==
    [tool |-> job.tool, path |-> path, operations |-> job.operations, at |-> "authorize",
     validPath |-> <<>>, read |-> <<>>, newContent |-> <<>>, error |-> ""]

\* The editor call of the request's tool on the content the request read.
editOf(tool, validPath, content, operations) ==
    IF tool = "modify_chars" THEN performCharBasedUpdate(validPath, content, operations)
    ELSE checkedByHandler(validPath, performLineBasedUpdate(validPath, content, operations))

\* A buffer shared by the requests, as a module-level variable would be: the
\* one another request has filled, when there is one.
otherBuffer(rs, r) ==
    IF \E q \in DOMAIN rs : q # r /\ rs[q].at \in {"write", "done"} /\ rs[q].error = ""
    THEN rs[CHOOSE q \in DOMAIN rs : q # r /\ rs[q].at \in {"write", "done"} /\ rs[q].error = ""].newContent
    ELSE rs[r].newContent

\* The buffer request r hands to fs.writeFile: its own const newContent.
localBuffer(rs, r) == rs[r].newContent

InitRace ==
    /\ args = {absReq(<<DATA, PROJ>>)}
    /\ allowedDirectories = allowedDirectoriesOf(args)
    /\ fs = InitFS
    /\ vpReq = None /\ vpRes = None
    /\ edFile = None /\ edContent = None /\ edOps = None
    /\ edOut = None /\ edPerm = None /\ edOutPerm = None
    /\ edPc = "idle"
    /\ NoToolCall
    /\ \E path \in RacePaths :
        \E jobs \in [Requests -> RaceJobs] :
            reqs = [r \in Requests |-> arrived(path, jobs[r])]
    /\ lastWriter = 0
    /\ NoLookup

\* `const validPath = await validatePath(parsed.data.path)`
RaceAuthorize ==
    \E r \in Requests :
        /\ reqs[r].at = "authorize"
        /\ LET vp == validatePath(allowedDirectories, fs, reqs[r].path) IN
           reqs' = [reqs EXCEPT ![r] =
                      IF vp.ok THEN [@ EXCEPT !.at = "read", !.validPath = vp.path]
                      ELSE [@ EXCEPT !.at = "done", !.error = vp.err]]
        /\ UNCHANGED <<args, allowedDirectories, fs, vpReq, vpRes, lastWriter>>
        /\ UNCHANGED edVars
        /\ UNCHANGED toolVars
        /\ UNCHANGED posVars

\* The read of getFilePositions resolves and the editor runs on what was
\* read, up to the call of fs.writeFile (or to the throw).
RaceRead ==
    \E r \in Requests :
        /\ reqs[r].at = "read"
        /\ LET rd == readFile(fs, reqs[r].validPath)
               out == editOf(reqs[r].tool, reqs[r].validPath, rd.data, reqs[r].operations)
           IN  reqs' = [reqs EXCEPT ![r] =
                          IF ~rd.ok THEN [@ EXCEPT !.at = "done", !.error = rd.err]
                          ELSE IF ~out.ok
                               THEN [@ EXCEPT !.at = "done", !.read = rd.data,
                                              !.error = out.err.kind]
                               ELSE [@ EXCEPT !.at = "write", !.read = rd.data,
                                              !.newContent = out.content]]
        /\ UNCHANGED <<args, allowedDirectories, fs, vpReq, vpRes, lastWriter>>
        /\ UNCHANGED edVars
        /\ UNCHANGED toolVars
        /\ UNCHANGED posVars

\* `await fs.writeFile(validPath, newContent, "utf-8")` completes.
RaceWrite ==
    \E r \in Requests :
        /\ reqs[r].at = "write"
        /\ LET w == writeFile(fs, reqs[r].validPath, localBuffer(reqs, r)) IN
            /\ fs' = w.fs
            /\ reqs' = [reqs EXCEPT ![r] = [@ EXCEPT !.at = "done", !.error = w.err]]
        /\ lastWriter' = r
        /\ UNCHANGED <<args, allowedDirectories, vpReq, vpRes>>
        /\ UNCHANGED edVars
        /\ UNCHANGED toolVars
        /\ UNCHANGED posVars

NextRace == RaceAuthorize \/ RaceRead \/ RaceWrite

SpecRace == InitRace /\ [][NextRace]_vars

(***************************************************************************)
(* What the sandbox is meant to guarantee, stated on real locations.       *)
(***************************************************************************)
\* The configured roots as directories of the file system.
roots == { absoluteOf(dir) : dir \in args }

\* p is the directory root or lies below it, segment by segment.
insideRoot(p, root) ==
    Len(root) <= Len(p) /\ SubSeq(p, 1, Len(root)) = root

insideSomeRoot(p) == \E r \in roots : insideRoot(p, r)

(***************************************************************************)
(* Claims about the sandbox.                                               *)
(***************************************************************************)
\* C1: whenever validatePath succeeds returning Q, the location Q denotes
\* after symbolic-link resolution is an allowed root or lies below one; a
\* link inside a root whose target is outside every root is refused.  Stated
\* for the requests that lie inside a root as written, which only symbolic
\* links can carry outside.
C1_ReturnedPathInsideRoot ==
    (vpRes # None /\ insideSomeRoot(absoluteOf(vpReq)) /\ vpRes.ok)
    => insideSomeRoot(location(fs, vpRes.path))

\* C2: a request whose absolute path has a root as a string prefix without
\* being that root or below it (a sibling such as /d/p2 for the root /d/p)
\* is never authorized.
C2_SiblingNeverAuthorized ==
    (/\ vpRes # None
     /\ \E r \in roots : startsWith(pathString(absoluteOf(vpReq)), pathString(r))
     /\ ~insideSomeRoot(absoluteOf(vpReq)))
    => ~vpRes.ok

hasDotDot(req) == \E i \in 1..Len(req.segs) : req.segs[i] = DOTDOT

\* C4: a request with ".." segments whose normalized absolute form lies
\* outside every root fails with the access-denied error, before any
\* symbolic-link resolution.
C4_TraversalDeniedBeforeResolution ==
    (/\ vpRes # None
     /\ hasDotDot(vpReq)
     /\ ~insideSomeRoot(absoluteOf(vpReq)))
    => (~vpRes.ok /\ vpRes.err = "AccessDenied" /\ vpRes.realpaths = <<>>)

\* C14: for a request that passes the check of the requested path and whose
\* target cannot be resolved, validatePath decides on the real path of the
\* immediate parent: it succeeds when that lies inside a root, fails with the
\* access-denied error when it matches no root, and fails with "Parent
\* directory does not exist" when the parent cannot be resolved.
C14_ParentCheck ==
    (/\ vpRes # None
     /\ isAllowedString(allowedDirectories, normalizePath(absoluteOf(vpReq)))
     /\ ~realpath(fs, absoluteOf(vpReq)).ok)
    => LET parent == realpath(fs, dirname(absoluteOf(vpReq))) IN
       /\ ~parent.ok => (~vpRes.ok /\ vpRes.err = "ParentNotFound")
       /\ (parent.ok /\ insideSomeRoot(parent.path)) => vpRes.ok
       /\ (parent.ok /\ ~isAllowedString(allowedDirectories, normalizePath(parent.path)))
            => (~vpRes.ok /\ vpRes.err = "AccessDenied")

(***************************************************************************)
(* Claims about the character editor.                                      *)
(***************************************************************************)
\* The range [start, end) an operation consumes: empty for an insert.
opStart(op) == op.startPosition
opEnd(op) == IF op.operation = "insert" THEN op.startPosition ELSE op.endPosition

\* Every position is an offset of the content and no range ends before it starts.
validOffsets(content, ops) ==
    \A i \in 1..Len(ops) :
        0 <= opStart(ops[i]) /\ opStart(ops[i]) <= opEnd(ops[i]) /\ opEnd(ops[i]) <= Len(content)

\* No two operations of the batch consume intersecting ranges.
nonOverlapping(ops) ==
    \A i, j \in 1..Len(ops) :
        i # j => (opEnd(ops[i]) <= opStart(ops[j]) \/ opEnd(ops[j]) <= opStart(ops[i]))

distinctStarts(ops) ==
    \A i, j \in 1..Len(ops) : i # j => opStart(ops[i]) # opStart(ops[j])

\* The content a batch of non-overlapping operations with distinct starts
\* denotes when every operation is read at the offsets of the original
\* content: walking the original offsets, the text inserted at an offset
\* comes first, then the original character unless a range consumes it.
RECURSIVE editedFrom(_, _, _)
editedFrom(content, ops, p) ==
    IF p > Len(content) THEN <<>>
    ELSE LET starting == { i \in 1..Len(ops) : opStart(ops[i]) = p /\ ops[i].operation # "delete" }
             inserted == IF starting = {} THEN <<>>
                         ELSE ops[CHOOSE i \in starting : TRUE].newContent
             consumed == \E i \in 1..Len(ops) : opStart(ops[i]) <= p /\ p < opEnd(ops[i])
             kept == IF p < Len(content) /\ ~consumed THEN <<content[p + 1]>> ELSE <<>>
         IN  inserted \o kept \o editedFrom(content, ops, p + 1)

editedAtOriginalOffsets(content, ops) == editedFrom(content, ops, 0)

\* C5: for a batch of pairwise non-overlapping operations at valid offsets,
\* performCharBasedUpdate returns the content obtained by applying each
\* operation at its original offsets; no operation is displaced by the length
\* change of one applied before it.  (Checked on files without the
\* structural check, where nothing else can stop the batch.)
C5_AppliedAtOriginalOffsets ==
    (/\ edPc # "idle" /\ edPc # "read"
     /\ ~isCodeFile(edFile)
     /\ validOffsets(edContent, edOps)
     /\ nonOverlapping(edOps)
     /\ distinctStarts(edOps))
    => (edOut.ok /\ edOut.content = editedAtOriginalOffsets(edContent, edOps))

sameOutcome(a, b) == a.ok = b.ok /\ (a.ok => a.content = b.content)

\* C6: for a non-overlapping batch, two operations with the same
\* startPosition included, any two orders of the batch give the same
\* outcome: the same content, or both fail.
C6_OrderIndependent ==
    (edPc = "permuted" /\ nonOverlapping(edOps)) => sameOutcome(edOut, edOutPerm)

\* The file name ends in .ts or .js.
tsOrJs(file) ==
    LET name == file[Len(file)]
        suffix == SubSeq(name, Len(name) - 2, Len(name))
    IN  Len(name) >= 3 /\ suffix \in {<<".", "t", "s">>, <<".", "j", "s">>}

\* The outcome of the first k operations, in the editor's order, on a file
\* without structural check.
partialResult(content, operations, k) ==
    performCharBasedUpdate(<<DATA, PROJ, CTXT>>, content, SubSeq(sortOps(operations), 1, k))

balanced(content) == validateCodeStructure(content).ok

\* The k-th operation in the editor's order is the first whose partial result
\* is unbalanced, every operation up to it having valid positions.
firstUnbalancedAt(content, operations, k) ==
    /\ \A j \in 0..k : partialResult(content, operations, j).ok
    /\ \A j \in 0..(k - 1) : balanced(partialResult(content, operations, j).content)
    /\ ~balanced(partialResult(content, operations, k).content)

\* C18: on a .ts or .js file performCharBasedUpdate checks the buffer after
\* every operation, in descending order of start: the first operation that
\* leaves it unbalanced ends the batch with an error that carries a line, a
\* column and the context line, the operations after it are not applied and
\* the buffer is the one the operations before it left; on any other file no
\* structural error is raised and the batch runs as without the check.
C18_StructureCheckedPerOperation ==
    edPc \in {"applied", "permuted"}
    => /\ tsOrJs(edFile) =>
            \A k \in 1..Len(edOps) :
                firstUnbalancedAt(edContent, edOps, k)
                => /\ ~edOut.ok
                   /\ edOut.err.cause = "CodeStructure"
                   /\ edOut.applied = k - 1
                   /\ edOut.content = partialResult(edContent, edOps, k - 1).content
                   /\ edOut.err.line >= 1
                   /\ ~edOut.err.columnIsNaN /\ edOut.err.column >= 1
                   /\ edOut.err.contextDefined
       /\ ~tsOrJs(edFile) =>
            /\ edOut.err.cause # "CodeStructure"
            /\ edOut = partialResult(edContent, edOps, Len(edOps))

(***************************************************************************)
(* Claims about positions.                                                 *)
(***************************************************************************)
\* The greatest index of lineStarts whose entry is at most offset.
greatestStartAtMost(lineStarts, o) ==
    CHOOSE i \in 1..Len(lineStarts) :
        /\ lineStarts[i] <= o
        /\ \A j \in 1..Len(lineStarts) : lineStarts[j] <= o => j <= i

\* C19: with the lineStarts of a content, getLineColumnFromOffset returns for
\* an offset in 0..length the line of the greatest start at most the offset
\* and the column offset - start + 1; for a negative offset and for one
\* greater than the length it fails instead of returning a position.
C19_OffsetLookup ==
    lcPosition # None
    => LET lineStarts == getFilePositions(edContent).lineStarts IN
       IF lcOffset >= 0 /\ lcOffset <= Len(edContent)
       THEN /\ lcPosition.returned
            /\ lcPosition.value.line = greatestStartAtMost(lineStarts, lcOffset)
            /\ ~lcPosition.value.columnIsNaN
            /\ lcPosition.value.column = lcOffset - lineStarts[lcPosition.value.line] + 1
       ELSE ~lcPosition.returned

(***************************************************************************)
(* Claims about the line editor.                                           *)
(***************************************************************************)
lineCountOf(content) == Len(split(content))

beyondEnd(op, lineCount) ==
    op.startLine > lineCount \/ (op.hasEnd /\ op.endLine > lineCount)

\* C8: performLineBasedUpdate checks every operation of the batch against
\* the line count of the content as read before it applies any: when an
\* operation at any index has startLine or endLine beyond that count, the
\* batch fails with the invalid-line-number error and no operation has been
\* applied.
C8_UpfrontLineCheck ==
    (/\ edPc \in {"applied", "done"}
     /\ \E i \in 1..Len(edOps) : beyondEnd(edOps[i], lineCountOf(edContent)))
    => (/\ ~edOut.ok
        /\ edOut.err.kind = "InvalidLineNumber"
        /\ edOut.applied = 0
        /\ edOut.content = edContent)

\* A batch whose first operation is in range and could be applied, and whose
\* second operation is beyond the end: the batch has failed.
C8_Witness ==
    /\ edPc = "applied"
    /\ Len(edOps) = 2
    /\ ~beyondEnd(edOps[1], lineCountOf(edContent))
    /\ applyLineOp(split(edContent), edOps[1]).err = noError
    /\ beyondEnd(edOps[2], lineCountOf(edContent))
    /\ ~edOut.ok

\* C9: on a file of N lines, a batch of one insertLines with startLine N + 1
\* succeeds and yields the N lines followed by the new content.  (Checked on
\* files without the structural check.)
C9_InsertPastLastLineAppends ==
    (/\ edPc \in {"applied", "done"}
     /\ ~isCodeFile(edFile)
     /\ Len(edOps) = 1
     /\ edOps[1].type = "insertLines"
     /\ edOps[1].newContent # <<>>
     /\ edOps[1].startLine = lineCountOf(edContent) + 1)
    => (/\ edOut.ok
        /\ edOut.content = join(split(edContent) \o split(edOps[1].newContent)))

\* The lines of an array from line `first` on, and its lines before it.
linesBefore(lines, first) == SubSeq(lines, 1, min(first - 1, Len(lines)))
linesAfter(lines, last) == SubSeq(lines, last + 1, Len(lines))

\* What one operation means on a line array: the lines before startLine, the
\* new lines (none for deleteLines), then the lines after endLine (from
\* startLine on for insertLines).
oneLineOp(lines, op) ==
    linesBefore(lines, op.startLine)
    \o (IF op.type = "deleteLines" THEN <<>> ELSE split(op.newContent))
    \o (IF op.type = "insertLines"
        THEN linesAfter(lines, min(op.startLine - 1, Len(lines)))
        ELSE linesAfter(lines, IF op.endLine < op.startLine - 1 THEN op.startLine - 1
                               ELSE op.endLine))

\* The left-to-right fold of oneLineOp over a batch.
RECURSIVE foldLineOps(_, _, _)
foldLineOps(lines, operations, i) ==
    IF i > Len(operations) THEN lines
    ELSE foldLineOps(oneLineOp(lines, operations[i]), operations, i + 1)

\* C15: a batch performLineBasedUpdate accepts is applied in the order the
\* caller gave, each operation's line numbers addressing the array as the
\* operations before it left it: the content returned is the join of the
\* left-to-right fold of the single operations over the lines read.
C15_LineOpsFoldInCallerOrder ==
    (edPc \in {"applied", "done"} /\ edOut.ok)
    => edOut.content = join(foldLineOps(split(edContent), edOps, 1))

\* A batch of two operations whose first changes the number of lines and
\* whose outcome depends on the order: back to front it gives another result.
C15_Witness ==
    /\ edPc = "applied"
    /\ edOut.ok
    /\ Len(edOps) = 2
    /\ Len(oneLineOp(split(edContent), edOps[1])) # lineCountOf(edContent)
    /\ edOut.content # join(foldLineOps(split(edContent), inReverseOrder(edOps), 1))
    /\ edOut.content # edContent

\* The line array the last operation of a batch meets.
beforeLast(content, operations) ==
    foldLineOps(split(content), SubSeq(operations, 1, Len(operations) - 1), 1)

\* The operation reaches past the end of the array: its range ends beyond the
\* last line, or it inserts beyond the line after the last.
reachesPast(op, lines) ==
    IF op.type = "insertLines" THEN op.startLine - 1 > Len(lines) ELSE op.endLine > Len(lines)

acceptedBatch(content, operations) ==
    /\ lineValidation(operations, lineCountOf(content)) = noError
    /\ \A i \in 1..Len(operations) :
          operations[i].type # "deleteLines" => operations[i].newContent # <<>>

\* C16: in a batch that passed the upfront check, an operation that reaches
\* past the end of the array as the earlier operations left it raises no
\* error: replaceLines and deleteLines remove just the lines from startLine
\* to the end (none when startLine is past the end), insertLines puts its
\* lines at the end.  (Stated for the last operation of the batch, on files
\* without the structural check.)
C16_SaturatingLineRanges ==
    (/\ edPc \in {"applied", "done"}
     /\ edOps # <<>>
     /\ ~isCodeFile(edFile)
     /\ acceptedBatch(edContent, edOps)
     /\ reachesPast(edOps[Len(edOps)], beforeLast(edContent, edOps)))
    => LET op == edOps[Len(edOps)]
           lines == beforeLast(edContent, edOps)
           kept == IF op.startLine - 1 < Len(lines) THEN op.startLine - 1 ELSE Len(lines)
       IN  /\ edOut.ok
           /\ edOut.content =
                join(SubSeq(lines, 1, kept)
                     \o (IF op.type = "deleteLines" THEN <<>> ELSE split(op.newContent)))

\* A batch whose first operation shrank the array and whose second operation
\* has a range that was inside the file as read and is now past the end.
C16_Witness ==
    /\ edPc = "applied"
    /\ Len(edOps) = 2
    /\ ~isCodeFile(edFile)
    /\ acceptedBatch(edContent, edOps)
    /\ Len(beforeLast(edContent, edOps)) < lineCountOf(edContent)
    /\ edOps[2].type = "replaceLines"
    /\ reachesPast(edOps[2], beforeLast(edContent, edOps))
    /\ edOut.ok

(***************************************************************************)
(* Claims about the structure validator.                                   *)
(***************************************************************************)
\* The delimiter characters of a content, in order.
delimitersOf(content) == SelectSeq(content, LAMBDA c : c \in {"{", "}", "(", ")", "[", "]"})

matchingPair(a, b) == <<a, b>> \in {<<"{", "}">>, <<"(", ")">>, <<"[", "]">>}

\* Well nested: cancelling adjacent matching pairs again and again leaves
\* nothing.
RECURSIVE wellNested(_)
wellNested(d) ==
    IF d = <<>> THEN TRUE
    ELSE IF \E i \in 1..(Len(d) - 1) : matchingPair(d[i], d[i + 1])
         THEN LET i == CHOOSE j \in 1..(Len(d) - 1) : matchingPair(d[j], d[j + 1])
              IN  wellNested(SubSeq(d, 1, i - 1) \o SubSeq(d, i + 2, Len(d)))
         ELSE FALSE

\* Closing what is open would make d well nested: no closer of d is at fault.
onlyUnclosed(d) ==
    \E closers \in SeqsUpTo({"}", ")", "]"}, Len(d)) : closers # <<>> /\ wellNested(d \o closers)

\* C17: validateCodeStructure succeeds exactly when the delimiters of the
\* content, all other characters ignored, are well nested; it fails as
\* unclosed exactly when only closers are missing at the end, and as
\* unbalanced on a closer that does not match the opener on top.
C17_ValidatorIffWellNested ==
    edPc = "checked"
    => /\ edOut.ok <=> wellNested(delimitersOf(edContent))
       /\ (~edOut.ok /\ edOut.kind = "Unclosed") <=> onlyUnclosed(delimitersOf(edContent))
       /\ (~edOut.ok /\ edOut.kind = "Unbalanced")
            <=> (~wellNested(delimitersOf(edContent)) /\ ~onlyUnclosed(delimitersOf(edContent)))

\* A nested content with another character in it has passed.
C17_Witness ==
    /\ edPc = "checked"
    /\ edOut.ok
    /\ Len(delimitersOf(edContent)) = 2
    /\ Len(edContent) = 3
    /\ edContent[1] # "("

(***************************************************************************)
(* Claims about the tool handlers.                                         *)
(***************************************************************************)
\* C3: in every tool handler, every path handed to a file operation or put
\* into the payload of the helper process is a value validatePath returned
\* while the call was served; no caller-supplied string gets there
\* unvalidated.
C3_HandedPathsAreValidated ==
    pc # "idle" => handed \subseteq authorized

isEditCall == pc = "responded" /\ call.name \in {"modify_chars", "modify_text"}

\* C7: for modify_chars and modify_text, a call that ends in an error leaves
\* the file system exactly as it was when the call arrived; a file is only
\* written by a call whose batch was applied and validated as a whole.
C7_FailedEditLeavesFile ==
    (isEditCall /\ response.isError) => fs = fsBefore

\* A modify_chars batch of two operations on a readable .ts file whose first
\* applied operation changed the buffer and whose second broke the structure:
\* the call failed and nothing was written.
C7_Witness ==
    /\ isEditCall
    /\ call.name = "modify_chars"
    /\ call.arguments.path = absReq(<<DATA, PROJ, ATS>>)
    /\ Len(call.arguments.operations) = 2
    /\ response.isError
    /\ response.message = "OperationFailed"
    /\ fs = fsBefore

\* C10: every tool call ends with a success payload or with a payload that
\* has isError set and a message; no failure leaves the handler as an
\* unhandled fault.
C10_EveryCallAnswered ==
    pc \in {"responded", "crashed"}
    => \/ response.kind = "success" /\ ~response.isError
       \/ response.kind = "error" /\ response.isError /\ response.message # ""


\* C11: move_file with an authorized source and an authorized destination
\* that already exists (and is another entry than the source) returns an
\* error and leaves the file system, source and destination included, as it
\* was; an existing destination is never overwritten.
C11_MoveNeverOverwrites ==
    (/\ pc = "responded"
     /\ call.name = "move_file"
     /\ call.arguments.source # None
     /\ LET src == validatePath(allowedDirectories, fsBefore, call.arguments.source)
            dst == validatePath(allowedDirectories, fsBefore, call.arguments.destination)
        IN  src.ok /\ dst.ok /\ src.path # dst.path /\ dst.path \in DOMAIN fsBefore)
    => (response.isError /\ fs = fsBefore)

\* Every level of path p that exists in f is a directory: nothing but missing
\* levels stands between p and being a directory.
onlyDirectoriesOnTheWay(f, p) ==
    \A k \in 0..Len(p) : SubSeq(p, 1, k) \in DOMAIN f => f[SubSeq(p, 1, k)].type = "dir"

\* C12: create_directory on a path under an allowed root succeeds, after it
\* every level of the path is a directory, however many trailing levels were
\* missing; on a directory that exists already it succeeds and changes
\* nothing.
C12_CreateDirectoryRecursiveIdempotent ==
    (/\ pc = "responded"
     /\ call.name = "create_directory"
     /\ call.arguments.path # None
     /\ insideSomeRoot(absoluteOf(call.arguments.path))
     /\ onlyDirectoriesOnTheWay(fsBefore, absoluteOf(call.arguments.path)))
    => /\ ~response.isError
       /\ absoluteOf(call.arguments.path) \in DOMAIN fs
       /\ onlyDirectoriesOnTheWay(fs, absoluteOf(call.arguments.path))
       /\ absoluteOf(call.arguments.path) \in DOMAIN fsBefore => fs = fsBefore

(***************************************************************************)
(* Claims about concurrent requests.                                       *)
(***************************************************************************)
\* C13: with modify requests on one path interleaved at their awaits, the
\* content on disk is at every moment the content written by the request
\* whose write completed last, and that content is the edit of that request
\* applied to the content that request itself read (never a mixture of two
\* requests' buffers); before any write the file system is as it started;
\* the allow-list stays the one built at start-up.
C13_LastWriteWins ==
    /\ allowedDirectories = allowedDirectoriesOf(args)
    /\ lastWriter = 0 => fs = InitFS
    /\ lastWriter # 0 =>
        LET w == reqs[lastWriter] IN
        fs = [InitFS EXCEPT ![w.validPath] =
                FileNode(editOf(w.tool, w.validPath, w.read, w.operations).content)]

\* Two requests read the same content before either wrote, both wrote, their
\* buffers differ: the edit of the first writer is lost.
C13_Witness ==
    /\ \A r \in Requests : reqs[r].at = "done"
    /\ lastWriter = 1
    /\ reqs[1].error = "" /\ reqs[2].error = ""
    /\ reqs[1].read = reqs[2].read
    /\ reqs[1].newContent # reqs[2].newContent
    /\ readFile(fs, reqs[1].validPath).data = reqs[1].newContent

\* The file name ends in one of the suffixes of the recognized source types.
recognizedSource(file) ==
    LET name == file[Len(file)] IN
    \E suffix \in { <<".", "t", "s">>, <<".", "j", "s">>, <<".", "p", "y">>,
                    <<".", "j", "s", "o", "n">> } :
        /\ Len(name) >= Len(suffix)
        /\ SubSeq(name, Len(name) - Len(suffix) + 1, Len(name)) = suffix

\* The final joined content of a batch, as the line editor yields it on a file
\* without structural check.
finalContent(content, operations) ==
    performLineBasedUpdate(<<DATA, PROJ, CTXT>>, content, operations)

\* C20: a modify_text call whose batch the line editor applies ends, on a
\* file with suffix .ts, .js, .py or .json and an unbalanced final content,
\* in an error with nothing written; in every other case (another suffix,
\* whatever the content, or a balanced content) the final content is written
\* to the file.
C20_FinalCheckByExtension ==
    (/\ pc = "responded"
     /\ call.name = "modify_text"
     /\ call.arguments.path # None
     /\ \A i \in 1..Len(call.arguments.operations) : lineOpSchemaOk(call.arguments.operations[i])
     /\ LET vp == validatePath(allowedDirectories, fsBefore, call.arguments.path) IN
        /\ vp.ok
        /\ readFile(fsBefore, vp.path).ok
        /\ finalContent(readFile(fsBefore, vp.path).data, call.arguments.operations).ok)
    => LET vp == validatePath(allowedDirectories, fsBefore, call.arguments.path)
           final == finalContent(readFile(fsBefore, vp.path).data, call.arguments.operations)
       IN  IF recognizedSource(vp.path) /\ ~validateCodeStructure(final.content).ok
           THEN response.isError /\ fs = fsBefore
           ELSE /\ ~response.isError
                /\ fs = [fsBefore EXCEPT ![location(fsBefore, vp.path)] =
                                            FileNode(final.content)]

\* modify_text on the .py file has produced an unbalanced final content: the
\* call failed and the file is as before.
C20_Witness ==
    /\ pc = "responded"
    /\ call.name = "modify_text"
    /\ call.arguments.path = relReq(<<PROJ, BPY>>)
    /\ response.isError
    /\ response.message = "StructureInvalid"
    /\ fs = fsBefore

\* The operation is a replaceLines or insertLines whose newContent is given
\* and is the empty string.
hasEmptyNewContent(op) ==
    op.type \in {"replaceLines", "insertLines"} /\ op.hasNew /\ op.newContent = <<>>

\* The k-th operation is the first of the batch with an empty newContent.
firstEmptyAt(operations, k) ==
    /\ hasEmptyNewContent(operations[k])
    /\ \A j \in 1..(k - 1) : ~hasEmptyNewContent(operations[j])

\* C21: in a modify_text call whose batch passes the upfront line check and
\* whose k-th operation is the first replaceLines or insertLines with the
\* empty string as newContent, LineOperationSchema accepts that operation,
\* the editor applies the k - 1 operations before it to its array and then
\* fails with the requires-newContent error; the call returns that error and
\* the file system is as before.
C21_EmptyNewContentFailsLate ==
    \A k \in 1..MaxOps :
        (/\ pc = "responded"
         /\ call.name = "modify_text"
         /\ call.arguments.path # None
         /\ k <= Len(call.arguments.operations)
         /\ \A j \in 1..(k - 1) : lineOpSchemaOk(call.arguments.operations[j])
         /\ firstEmptyAt(call.arguments.operations, k)
         /\ LET vp == validatePath(allowedDirectories, fsBefore, call.arguments.path) IN
            /\ vp.ok
            /\ readFile(fsBefore, vp.path).ok
            /\ lineValidation(call.arguments.operations,
                              lineCountOf(readFile(fsBefore, vp.path).data)) = noError)
        => LET vp == validatePath(allowedDirectories, fsBefore, call.arguments.path)
               read == readFile(fsBefore, vp.path).data
               out == performLineBasedUpdate(vp.path, read, call.arguments.operations)
           IN  /\ lineOpSchemaOk(call.arguments.operations[k])
               /\ ~out.ok
               /\ out.err.kind = "RequiresNewContent"
               /\ out.applied = k - 1
               /\ out.content =
                    join(foldLineOps(split(read), SubSeq(call.arguments.operations, 1, k - 1), 1))
               /\ response.isError
               /\ response.message = "RequiresNewContent"
               /\ fs = fsBefore

\* A batch of two operations on a readable file: the first has changed the
\* array, the second has the empty string as newContent; the call has failed
\* and nothing was written.
C21_Witness ==
    /\ pc = "responded"
    /\ call.name = "modify_text"
    /\ call.arguments.path = absReq(<<DATA, PROJ, CTXT>>)
    /\ Len(call.arguments.operations) = 2
    /\ firstEmptyAt(call.arguments.operations, 2)
    /\ performLineBasedUpdate(<<DATA, PROJ, CTXT>>, readFile(fsBefore, <<DATA, PROJ, CTXT>>).data,
                              call.arguments.operations).content
         # readFile(fsBefore, <<DATA, PROJ, CTXT>>).data
    /\ response.isError
    /\ response.message = "RequiresNewContent"
    /\ fs = fsBefore

====
